---------------------------- MODULE Spec2Model ----------------------------
(***************************************************************************)
(* Model of the bootcamps controller (src/controllers/bootcamps.js) and    *)
(* its route table.  JavaScript strings are sequences of one-character     *)
(* strings, so that parseInt, JSON.stringify, the operator-rewriting       *)
(* regular expression and JSON.parse are computed character by character.  *)
(***************************************************************************)
EXTENDS Integers, Sequences, FiniteSets, TLC

(***************************************************************************)
(* Bounds of the model.                                                    *)
(***************************************************************************)
MaxId == 2          \* bootcamp ids are 1..MaxId
MaxCost == 1        \* the averageCost of a stored bootcamp is 0..MaxCost
MaxDigit == 2       \* digits used in page / limit strings are 0..MaxDigit
MaxFileSize == 2    \* uploaded file sizes are 1..MaxFileSize
MaxFilterKeys == 2  \* entries of a query mapping in the filter pipeline
MaxStrLen == 2      \* characters of a page / limit string

(***************************************************************************)
(* Program constants.                                                      *)
(***************************************************************************)
DefaultPage == 1
DefaultLimit == 25
EarthRadius == 6378
Radix == 10

(***************************************************************************)
(* Characters and strings.                                                 *)
(***************************************************************************)
DigitChars == <<"0", "1", "2", "3", "4", "5", "6", "7", "8", "9">>

Digits == {DigitChars[i] : i \in 1..10}

DigitValue(c) == (CHOOSE i \in 1..10 : DigitChars[i] = c) - 1

\* the one-digit string of d
DigitStr(d) == <<DigitChars[d + 1]>>

Letters ==
    {"a", "b", "c", "d", "e", "f", "g", "h", "i", "j", "k", "l", "m",
     "n", "o", "p", "q", "r", "s", "t", "u", "v", "w", "x", "y", "z",
     "A", "C", "O"}

\* \w of the regular expression: [A-Za-z0-9_]
IsWordChar(c) == c \in Letters \cup Digits \cup {"_"}

WhiteSpace == {" "}

\* a JavaScript value of a query mapping: undefined, a string, or an object
\* (an ordered list of key/value entries)
Undefined == [t |-> "undefined"]

Str(s) == [t |-> "str", s |-> s]

Obj(e) == [t |-> "obj", e |-> e]

Entry(k, v) == [k |-> k, v |-> v]

Keys(o) == {o.e[i].k : i \in 1..Len(o.e)}

\* o[k]: the value of the last entry with key k, undefined when there is none
Get(o, k) ==
    IF k \in Keys(o)
    THEN o.e[CHOOSE i \in 1..Len(o.e) :
                 /\ o.e[i].k = k
                 /\ \A j \in (i+1)..Len(o.e) : o.e[j].k # k].v
    ELSE Undefined

RECURSIVE Without(_, _)
Without(es, drop) ==
    IF es = <<>> THEN <<>>
    ELSE IF Head(es).k \in drop THEN Without(Tail(es), drop)
         ELSE <<Head(es)>> \o Without(Tail(es), drop)


(***************************************************************************)
(* Words of the program text.                                              *)
(***************************************************************************)
SelectKey == <<"s", "e", "l", "e", "c", "t">>
SortKey == <<"s", "o", "r", "t">>
PageKey == <<"p", "a", "g", "e">>
LimitKey == <<"l", "i", "m", "i", "t">>
OpGt == <<"g", "t">>
OpGte == <<"g", "t", "e">>
OpLt == <<"l", "t">>
OpLte == <<"l", "t", "e">>
OpIn == <<"i", "n">>
CostField == <<"a", "v", "e", "r", "a", "g", "e", "C", "o", "s", "t">>
NameField == <<"n", "a", "m", "e">>
UndefinedText == <<"u", "n", "d", "e", "f", "i", "n", "e", "d">>
ObjectText == <<"[">> \o <<"o", "b", "j", "e", "c", "t">> \o <<" ">> \o <<"O", "b", "j", "e", "c", "t">> \o <<"]">>
DefaultSort == <<"-">> \o <<"c", "r", "e", "a", "t", "e", "d", "A", "t">>

\* line 17: the reserved keys
removeFields == {SelectKey, SortKey, PageKey, LimitKey}

\* line 26: the alternatives of the regular expression
OpWords == {OpGt, OpGte, OpLt, OpLte, OpIn}

(***************************************************************************)
(* JSON.stringify of a query mapping (line 23).  The strings of the model  *)
(* hold no quote and no backslash, so nothing is escaped.                  *)
(***************************************************************************)
Quote == "\""

RECURSIVE Stringify(_)
RECURSIVE StringifyEntries(_)
Stringify(v) ==
    IF v.t = "str" THEN <<Quote>> \o v.s \o <<Quote>>
    ELSE <<"{">> \o StringifyEntries(v.e) \o <<"}">>

StringifyEntries(es) ==
    IF es = <<>> THEN <<>>
    ELSE <<Quote>> \o Head(es).k \o <<Quote, ":">> \o Stringify(Head(es).v)
         \o (IF Len(es) > 1 THEN <<",">> ELSE <<>>)
         \o StringifyEntries(Tail(es))

(***************************************************************************)
(* queryStr.replace(/\b(gt|gte|lt|lte|in)\b/g, match => `$${match}`)       *)
(* (line 26).  Every character of a match is a word character and a word   *)
(* boundary stands on both sides, so a match is a maximal run of word      *)
(* characters that spells one of the five words.                           *)
(***************************************************************************)
RECURSIVE WordRunLen(_)
WordRunLen(s) ==
    IF s = <<>> \/ ~IsWordChar(Head(s)) THEN 0 ELSE 1 + WordRunLen(Tail(s))

RECURSIVE ReplaceOps(_)
ReplaceOps(s) ==
    IF s = <<>> THEN <<>>
    ELSE IF IsWordChar(Head(s))
         THEN LET n == WordRunLen(s)
                  run == SubSeq(s, 1, n)
              IN  (IF run \in OpWords THEN <<"$">> ELSE <<>>) \o run
                  \o ReplaceOps(SubSeq(s, n + 1, Len(s)))
         ELSE <<Head(s)>> \o ReplaceOps(Tail(s))

(***************************************************************************)
(* JSON.parse (line 31), a recursive descent over the characters.  A key   *)
(* met twice keeps its first place and takes the later value.              *)
(***************************************************************************)
SetEntry(es, k, v) ==
    IF \E i \in 1..Len(es) : es[i].k = k
    THEN [i \in 1..Len(es) |-> IF es[i].k = k THEN Entry(k, v) ELSE es[i]]
    ELSE Append(es, Entry(k, v))

\* index of the quote that closes the string opened at position i
ClosingQuote(s, i) == CHOOSE j \in (i+1)..Len(s) :
                          /\ s[j] = Quote
                          /\ \A m \in (i+1)..(j-1) : s[m] # Quote

ParseString(s, i) ==
    LET j == ClosingQuote(s, i)
    IN  [v |-> SubSeq(s, i + 1, j - 1), n |-> j + 1]

RECURSIVE ParseValue(_, _)
RECURSIVE ParseMembers(_, _, _)
ParseValue(s, i) ==
    IF s[i] = Quote
    THEN LET r == ParseString(s, i) IN [v |-> Str(r.v), n |-> r.n]
    ELSE IF s[i + 1] = "}" THEN [v |-> Obj(<<>>), n |-> i + 2]
         ELSE ParseMembers(s, i + 1, <<>>)

ParseMembers(s, i, acc) ==
    LET key == ParseString(s, i)
        val == ParseValue(s, key.n + 1)
        es == SetEntry(acc, key.v, val.v)
    IN  IF s[val.n] = ","
        THEN ParseMembers(s, val.n + 1, es)
        ELSE [v |-> Obj(es), n |-> val.n + 1]

JsonParse(s) == ParseValue(s, 1).v

(***************************************************************************)
(* Lines 13-31: the filter handed to Bootcamp.find.                        *)
(***************************************************************************)
\* lines 14-20: the copy of req.query without the reserved keys
StripReserved(query) == Obj(Without(query.e, removeFields))

BuildFilter(query) == JsonParse(ReplaceOps(Stringify(StripReserved(query))))

(***************************************************************************)
(* parseInt(value, 10) (lines 50-51): the value is turned into a string,   *)
(* leading white space is skipped, a sign is read, then the longest run    *)
(* of digits; NaN when there is no digit.                                  *)
(***************************************************************************)
JsToString(v) ==
    IF v.t = "undefined" THEN UndefinedText
    ELSE IF v.t = "str" THEN v.s
    ELSE ObjectText

RECURSIVE TrimStart(_)
TrimStart(s) ==
    IF s # <<>> /\ Head(s) \in WhiteSpace THEN TrimStart(Tail(s)) ELSE s

RECURSIVE DigitRunLen(_)
DigitRunLen(s) ==
    IF s = <<>> \/ Head(s) \notin Digits THEN 0 ELSE 1 + DigitRunLen(Tail(s))

RECURSIVE DigitsValue(_, _)
DigitsValue(s, acc) ==
    IF s = <<>> THEN acc
    ELSE DigitsValue(Tail(s), acc * Radix + DigitValue(Head(s)))

NaN == [nan |-> TRUE, n |-> 0]

Num(n) == [nan |-> FALSE, n |-> n]

ParseInt(v) ==
    LET s == TrimStart(JsToString(v))
        neg == s # <<>> /\ Head(s) = "-"
        body == IF s # <<>> /\ Head(s) \in {"-", "+"} THEN Tail(s) ELSE s
        n == DigitRunLen(body)
    IN  IF n = 0 THEN NaN
        ELSE Num((IF neg THEN -1 ELSE 1) * DigitsValue(SubSeq(body, 1, n), 0))

\* x || d: NaN and 0 are falsy
OrDefault(x, d) == IF x.nan \/ x.n = 0 THEN d ELSE x.n

\* line 50
PageOf(query) == OrDefault(ParseInt(Get(query, PageKey)), DefaultPage)

\* line 51
LimitOf(query) == OrDefault(ParseInt(Get(query, LimitKey)), DefaultLimit)

\* line 54
StartIndex(page, limit) == (page - 1) * limit

\* line 55
EndIndex(page, limit) == page * limit


(***************************************************************************)
(* The state.                                                              *)
(*   db      the bootcamps collection, in creation order; a document is    *)
(*           [id, averageCost, photo]                                      *)
(*   nextId  the id the next created document gets (ids are never reused)  *)
(*   files   the names of the files in the upload directory                *)
(*   req     per client, the request it has in flight or has finished      *)
(***************************************************************************)
VARIABLES db, nextId, files, req

vars == <<db, nextId, files, req>>

Clients == {"c1", "c2"}

Ids == 1..MaxId

Costs == 0..MaxCost

Doc(id, cost, photo) == [id |-> id, averageCost |-> cost, photo |-> photo]

IdsOf(d) == {d[i].id : i \in 1..Len(d)}

Reverse(s) == [i \in 1..Len(s) |-> s[Len(s) + 1 - i]]

\* a request's outcome: the response sent, the error handed to next()
NoResponse == [sent |-> FALSE]

Response(status, body) == [sent |-> TRUE, status |-> status, body |-> body]

NoError == [raised |-> FALSE]

\* new ErrorResponse(message, statusCode)
ErrorResponse(message, statusCode) ==
    [raised |-> TRUE, kind |-> "ErrorResponse", message |-> message,
     statusCode |-> statusCode]

\* an error thrown by a collaborator or by the runtime: it has no statusCode
Thrown(kind) ==
    [raised |-> TRUE, kind |-> kind, message |-> kind, statusCode |-> 0]

Idle == [h |-> "idle", pc |-> "done", in |-> <<>>, loc |-> <<>>,
         res |-> NoResponse, err |-> NoError]

NewRequest(h, pc, in, loc) ==
    [h |-> h, pc |-> pc, in |-> in, loc |-> loc,
     res |-> NoResponse, err |-> NoError]

\* every client sends one request
Free(c) == req[c].h = "idle"

\* res.status(s).json(body)
Respond(r, status, body) ==
    [r EXCEPT !.pc = "done", !.res = Response(status, body)]

\* return next(error)
Delegate(r, e) == [r EXCEPT !.pc = "done", !.err = e]

\* middleware/async: fn => (req, res, next) =>
\*     Promise.resolve(fn(req, res, next)).catch(next)
\* a rejection of a step the handler awaits is handed to next()
asyncHandler(r, e) == Delegate(r, e)

\* a rejection inside a callback that no promise chain of the handler holds:
\* nothing is sent and nothing is handed to next()
UnhandledRejection(r) == [r EXCEPT !.pc = "done"]

(***************************************************************************)
(* The storage collaborator (the Bootcamp model).                          *)
(***************************************************************************)
\* Number(string) for the strings of the model: digits only
ToNumber(s) ==
    IF s # <<>> /\ DigitRunLen(s) = Len(s) THEN Num(DigitsValue(s, 0)) ELSE NaN

StorageOps == {<<"$">> \o OpGt, <<"$">> \o OpGte, <<"$">> \o OpLt,
               <<"$">> \o OpLte}

Compare(op, x, y) ==
    IF op = <<"$">> \o OpGt THEN x > y
    ELSE IF op = <<"$">> \o OpGte THEN x >= y
    ELSE IF op = <<"$">> \o OpLt THEN x < y
    ELSE x <= y

\* a condition on a number field: a literal, or an object of operators
ConditionValid(v) ==
    IF v.t = "str" THEN ~ToNumber(v.s).nan
    ELSE \A i \in 1..Len(v.e) :
             /\ v.e[i].k \in StorageOps
             /\ v.e[i].v.t = "str"
             /\ ~ToNumber(v.e[i].v.s).nan

\* the storage layer rejects a filter it cannot cast
FilterValid(filter) ==
    \A i \in 1..Len(filter.e) :
        filter.e[i].k = CostField => ConditionValid(filter.e[i].v)

ConditionHolds(x, v) ==
    IF v.t = "str" THEN x = ToNumber(v.s).n
    ELSE \A i \in 1..Len(v.e) :
             Compare(v.e[i].k, x, ToNumber(v.e[i].v.s).n)

\* a document matches when every entry of the filter holds of it; a field
\* the documents do not have matches nothing
Matches(doc, filter) ==
    \A i \in 1..Len(filter.e) :
        /\ filter.e[i].k = CostField
        /\ ConditionHolds(doc.averageCost, filter.e[i].v)

\* Bootcamp.find(filter)
Find(d, filter) == LET Keep(doc) == Matches(doc, filter) IN SelectSeq(d, Keep)

\* Bootcamp.countDocuments(): no filter is passed (line 57)
CountDocuments(d) == Len(d)

RECURSIVE InsertByCost(_, _)
InsertByCost(doc, s) ==
    IF s = <<>> THEN <<doc>>
    ELSE IF doc.averageCost < Head(s).averageCost THEN <<doc>> \o s
    ELSE <<Head(s)>> \o InsertByCost(doc, Tail(s))

RECURSIVE SortByCost(_)
SortByCost(s) ==
    IF s = <<>> THEN <<>>
    ELSE InsertByCost(s[Len(s)], SortByCost(SubSeq(s, 1, Len(s) - 1)))

\* query.sort(sortBy): by creation time descending, by averageCost ascending,
\* otherwise the collection's own order
SortDocs(s, sortBy) ==
    IF sortBy = DefaultSort THEN Reverse(s)
    ELSE IF sortBy = CostField THEN SortByCost(s)
    ELSE s

Abs(n) == IF n < 0 THEN -n ELSE n

Min(a, b) == IF a < b THEN a ELSE b

\* query.skip(skip).limit(limit): a negative limit is taken as its absolute
\* value; a negative skip is rejected (see SkipValid)
Window(s, skip, limit) == SubSeq(s, skip + 1, Min(Len(s), skip + Abs(limit)))

SkipValid(skip) == skip >= 0

\* Bootcamp.findById(id): the document or null
Null == [id |-> 0]

\* the local variable bootcamp before the lookup has answered
Pending == [id |-> -1]

AwaitingLookup == [bootcamp |-> Pending]

HasId(d, id) == id \in IdsOf(d)

FindById(d, id) == d[CHOOSE i \in 1..Len(d) : d[i].id = id]

\* bootcamp.remove()
Remove(d, id) == LET Keep(doc) == doc.id # id IN SelectSeq(d, Keep)

\* Bootcamp.findByIdAndUpdate(id, update)
UpdateById(d, id, field, value) ==
    [i \in 1..Len(d) |->
        IF d[i].id = id THEN [d[i] EXCEPT ![field] = value] ELSE d[i]]


(***************************************************************************)
(* getBootcamps (lines 10-81).                                             *)
(***************************************************************************)
\* a value used as a condition: undefined and the empty string are falsy
Truthy(v) == v.t = "obj" \/ (v.t = "str" /\ v.s # <<>>)

\* value.split(',').join(' ') (lines 36, 42)
SplitJoin(s) == [i \in 1..Len(s) |-> IF s[i] = "," THEN " " ELSE s[i]]

\* lines 34-38: the field list handed to query.select, undefined when the
\* request has no select
FieldsOf(query) ==
    IF Truthy(Get(query, SelectKey))
    THEN Str(SplitJoin(Get(query, SelectKey).s))
    ELSE Undefined

\* lines 41-47
SortOf(query) ==
    IF Truthy(Get(query, SortKey))
    THEN SplitJoin(Get(query, SortKey).s)
    ELSE DefaultSort

\* an object has no split method: lines 36 and 42 throw a TypeError
SplitThrows(query) ==
    Get(query, SelectKey).t = "obj" \/ Get(query, SortKey).t = "obj"

\* the pagination with the comparison of line 66 made inclusive
PaginationInclusive(page, limit, startIndex, endIndex, totalEntries) ==
    LET present == (IF endIndex <= totalEntries THEN {"next"} ELSE {})
                   \cup (IF startIndex > 0 THEN {"prev"} ELSE {})
    IN  [k \in present |->
            IF k = "next" THEN [page |-> page + 1, limit |-> limit]
            ELSE [page |-> page - 1, limit |-> limit]]

\* lines 64-78
Pagination(page, limit, startIndex, endIndex, totalEntries) ==
    LET present == (IF endIndex < totalEntries THEN {"next"} ELSE {})
                   \cup (IF startIndex > 0 THEN {"prev"} ELSE {})
    IN  [k \in present |->
            IF k = "next" THEN [page |-> page + 1, limit |-> limit]
            ELSE [page |-> page - 1, limit |-> limit]]

\* lines 10-55: everything the handler does before its first await
ListLocals(query) ==
    LET page == PageOf(query)
        limit == LimitOf(query)
    IN  [filter |-> BuildFilter(query),
         fields |-> FieldsOf(query),
         sortBy |-> SortOf(query),
         page |-> page,
         limit |-> limit,
         startIndex |-> StartIndex(page, limit),
         endIndex |-> EndIndex(page, limit)]

\* the router hands a list request to the handler (part_000 line 32)
ReceiveList(c, queries) ==
    /\ Free(c)
    /\ \E q \in queries :
          req' = [req EXCEPT ![c] =
                     NewRequest("getBootcamps", "start", [query |-> q], <<>>)]
    /\ UNCHANGED <<db, nextId, files>>

GetBootcampsStart(c) ==
    /\ req[c].h = "getBootcamps"
    /\ req[c].pc = "start"
    /\ LET r == req[c]
       IN  req' = [req EXCEPT ![c] =
                      IF SplitThrows(r.in.query)
                      THEN asyncHandler(r, Thrown("TypeError"))
                      ELSE [r EXCEPT !.pc = "count",
                                     !.loc = ListLocals(r.in.query)]]
    /\ UNCHANGED <<db, nextId, files>>

\* line 57: await Bootcamp.countDocuments()
GetBootcampsCount(c) ==
    /\ req[c].h = "getBootcamps"
    /\ req[c].pc = "count"
    /\ \/ req' = [req EXCEPT ![c] =
                     [@ EXCEPT !.pc = "fetch",
                               !.loc = [totalEntries |-> CountDocuments(db),
                                        idsAtCount |-> IdsOf(db)] @@ @]]
       \/ req' = [req EXCEPT ![c] = asyncHandler(@, Thrown("StorageError"))]
    /\ UNCHANGED <<db, nextId, files>>

\* lines 59-80: await query, then the pagination and the response
GetBootcampsFetch(c) ==
    /\ req[c].h = "getBootcamps"
    /\ req[c].pc = "fetch"
    /\ LET l == req[c].loc
           matching == Find(db, l.filter)
           bootcamps == Window(SortDocs(matching, l.sortBy),
                               l.startIndex, l.limit)
           pagination == Pagination(l.page, l.limit, l.startIndex,
                                    l.endIndex, l.totalEntries)
       IN  \/ /\ FilterValid(l.filter)
              /\ SkipValid(l.startIndex)
              /\ req' = [req EXCEPT ![c] =
                            Respond([@ EXCEPT !.loc =
                                        [idsAtFetch |-> IdsOf(db),
                                         matchAtFetch |-> Len(matching)]
                                        @@ @],
                                    200,
                                    [success |-> TRUE,
                                     count |-> Len(bootcamps),
                                     pagination |-> pagination,
                                     data |-> bootcamps])]
           \/ req' = [req EXCEPT ![c] =
                         asyncHandler(@, Thrown("StorageError"))]
    /\ UNCHANGED <<db, nextId, files>>

(***************************************************************************)
(* createBootcamp (lines 99-106).                                          *)
(***************************************************************************)
CreateBootcamp(c) ==
    /\ Free(c)
    /\ \E cost \in Costs :
          LET r == NewRequest("createBootcamp", "create",
                              [body |-> [averageCost |-> cost]], <<>>)
              bootcamp == Doc(nextId, cost, <<>>)
          IN  \/ /\ nextId <= MaxId
                 /\ db' = Append(db, bootcamp)
                 /\ nextId' = nextId + 1
                 /\ req' = [req EXCEPT ![c] =
                               Respond(r, 201, [success |-> TRUE,
                                                data |-> bootcamp])]
              \/ /\ req' = [req EXCEPT ![c] =
                               asyncHandler(r, Thrown("StorageError"))]
                 /\ UNCHANGED <<db, nextId>>
    /\ UNCHANGED files

(***************************************************************************)
(* deleteBootcamp (lines 127-137).                                         *)
(***************************************************************************)
\* the not-found error with the status of a validation error
NotFoundAsBadRequest(id) ==
    ErrorResponse(<<"Bootcamp id", id, "not found">>, 400)

\* new ErrorResponse(`Bootcamp id ${req.params.id} not found`, 404)
NotFound(id) == ErrorResponse(<<"Bootcamp id", id, "not found">>, 404)

\* lines 128-132
DeleteBootcampFind(c) ==
    /\ Free(c)
    /\ \E id \in Ids :
          LET r == NewRequest("deleteBootcamp", "find", [id |-> id], AwaitingLookup)
          IN  \/ req' = [req EXCEPT ![c] =
                     IF HasId(db, id)
                     THEN [r EXCEPT !.pc = "remove",
                                    !.loc = [bootcamp |-> FindById(db, id)]]
                     ELSE Delegate([r EXCEPT !.loc = [bootcamp |-> Null]],
                                   NotFound(id))]
              \/ req' = [req EXCEPT ![c] =
                            asyncHandler(r, Thrown("StorageError"))]
    /\ UNCHANGED <<db, nextId, files>>

\* lines 134-136
DeleteBootcampRemove(c) ==
    /\ req[c].h = "deleteBootcamp"
    /\ req[c].pc = "remove"
    /\ \/ /\ db' = Remove(db, req[c].loc.bootcamp.id)
          /\ req' = [req EXCEPT ![c] =
                        Respond(@, 200, [success |-> TRUE, data |-> <<>>])]
       \/ /\ req' = [req EXCEPT ![c] =
                        asyncHandler(@, Thrown("StorageError"))]
          /\ UNCHANGED db
    /\ UNCHANGED <<nextId, files>>

(***************************************************************************)
(* getBootcamp (lines 86-94).                                              *)
(***************************************************************************)
GetBootcamp(c) ==
    /\ Free(c)
    /\ \E id \in Ids :
          LET r == NewRequest("getBootcamp", "find", [id |-> id], AwaitingLookup)
          IN  \/ req' = [req EXCEPT ![c] =
                     IF HasId(db, id)
                     THEN Respond([r EXCEPT !.loc =
                                      [bootcamp |-> FindById(db, id)]],
                                  200,
                                  [success |-> TRUE,
                                   data |-> FindById(db, id)])
                     ELSE Delegate([r EXCEPT !.loc = [bootcamp |-> Null]],
                                   NotFound(id))]
              \/ req' = [req EXCEPT ![c] =
                            asyncHandler(r, Thrown("StorageError"))]
    /\ UNCHANGED <<db, nextId, files>>

(***************************************************************************)
(* updateBootcamp (lines 111-122): findByIdAndUpdate with new: true.       *)
(***************************************************************************)
UpdateBootcamp(c) ==
    /\ Free(c)
    /\ \E id \in Ids, cost \in Costs :
          LET r == NewRequest("updateBootcamp", "find",
                              [id |-> id, body |-> [averageCost |-> cost]],
                              AwaitingLookup)
              updated == UpdateById(db, id, "averageCost", cost)
          IN  \/ /\ HasId(db, id)
                 /\ db' = updated
                 /\ req' = [req EXCEPT ![c] =
                               Respond([r EXCEPT !.loc =
                                           [bootcamp |->
                                               FindById(updated, id)]],
                                       200,
                                       [success |-> TRUE,
                                        data |-> FindById(updated, id)])]
              \/ /\ ~HasId(db, id)
                 /\ req' = [req EXCEPT ![c] =
                               Delegate([r EXCEPT !.loc =
                                            [bootcamp |-> Null]],
                                        NotFound(id))]
                 /\ UNCHANGED db
              \/ /\ req' = [req EXCEPT ![c] =
                               asyncHandler(r, Thrown("StorageError"))]
                 /\ UNCHANGED db
    /\ UNCHANGED <<nextId, files>>

(***************************************************************************)
(* getBootcampsInRadius (lines 142-165).                                   *)
(***************************************************************************)
\* distance / 6378 (line 153): the string is converted to a number; the
\* quotient is kept as a fraction
Divide(x, d) ==
    IF x.nan THEN [nan |-> TRUE, num |-> 0, den |-> d]
    ELSE [nan |-> FALSE, num |-> x.n, den |-> d]

RadiusOf(distance) == Divide(ToNumber(distance), EarthRadius)

\* lines 155-158: the filter handed to Bootcamp.find
GeoQuery(loc, distance) ==
    [center |-> <<loc[1].longitude, loc[1].latitude>>,
     radius |-> RadiusOf(distance)]

\* the documents whose ids are in S, in the collection's order
Pick(d, S) == LET Keep(doc) == doc.id \in S IN SelectSeq(d, Keep)

\* what the geocoder may answer: no result, one, or two
GeoPoint(n) == [latitude |-> n, longitude |-> 10 + n]

GeoResults == {<<>>, <<GeoPoint(1)>>, <<GeoPoint(1), GeoPoint(2)>>}

\* the distance parameter of the route: digit strings and non-numeric text
Distances == {DigitStr(d) : d \in 0..MaxDigit} \cup {<<"x">>, <<"1", "x">>}

GetBootcampsInRadius(c) ==
    /\ Free(c)
    /\ \E distance \in Distances :
          LET r == NewRequest("getBootcampsInRadius", "geocode",
                              [distance |-> distance],
                              [issued |-> <<>>])
          IN  \* line 146: the geocoder rejects
              \/ req' = [req EXCEPT ![c] =
                            asyncHandler(r, Thrown("GeocoderError"))]
              \/ \E loc \in GeoResults :
                    IF loc = <<>>
                    THEN \* line 147: loc[0] is undefined
                         req' = [req EXCEPT ![c] =
                                    asyncHandler(r, Thrown("TypeError"))]
                    ELSE LET q == GeoQuery(loc, distance)
                             asked == [r EXCEPT !.loc =
                                          [loc |-> loc, issued |-> <<q>>]]
                         IN  \* the storage layer answers which documents
                             \* lie within the sphere; it rejects a radius
                             \* that is not a number
                             \/ /\ ~q.radius.nan
                                /\ \E S \in SUBSET IdsOf(db) :
                                      req' = [req EXCEPT ![c] =
                                          Respond(asked, 200,
                                              [success |-> TRUE,
                                               count |-> Cardinality(S),
                                               data |-> Pick(db, S)])]
                             \/ req' = [req EXCEPT ![c] =
                                     asyncHandler(asked,
                                                  Thrown("StorageError"))]
    /\ UNCHANGED <<db, nextId, files>>

(***************************************************************************)
(* bootcampPhotoUpload (lines 170-216).                                    *)
(***************************************************************************)
\* process.env.MAX_FILE_UPLOAD (line 191)
MaxFileUpload == 1

ImagePrefix == <<"i", "m", "a", "g", "e">>

PhotoPrefix == <<"p", "h", "o", "t", "o", "_">>

\* string.startsWith(prefix) (line 186)
StartsWith(s, prefix) ==
    Len(s) >= Len(prefix) /\ SubSeq(s, 1, Len(prefix)) = prefix

\* path.parse(name).ext (line 196): from the last dot of the name, unless
\* that dot is the name's first character
PathExt(name) ==
    LET dots == {i \in 1..Len(name) : name[i] = "."}
        last == CHOOSE i \in dots : \A j \in dots : j <= i
    IN  IF dots = {} \/ last = 1 THEN <<>>
        ELSE SubSeq(name, last, Len(name))

\* line 196
PhotoName(id, name) == PhotoPrefix \o DigitStr(id) \o PathExt(name)

\* what the upload middleware leaves in req.files: nothing, files under
\* another field name, or the file
NoFiles == [present |-> FALSE]

OtherField == [present |-> TRUE, hasFile |-> FALSE]

Upload(name, mimetype, size) ==
    [present |-> TRUE, hasFile |-> TRUE,
     file |-> [name |-> name, mimetype |-> mimetype, size |-> size]]

FileNames == {<<"a", ".", "p", "n", "g">>, <<"a">>}

MimeTypes == {ImagePrefix \o <<"/", "x">>, <<"t", "e", "x", "t">>}

Uploads ==
    {NoFiles, OtherField}
    \cup {Upload(n, m, s) : n \in FileNames, m \in MimeTypes,
                            s \in 1..MaxFileSize}

\* lines 177-193: the error the checks end in, NoError when all pass
UploadCheck(up) ==
    IF ~up.present THEN ErrorResponse("Please upload a file", 400)
    ELSE IF ~up.hasFile THEN Thrown("TypeError")
    ELSE IF ~StartsWith(up.file.mimetype, ImagePrefix)
         THEN ErrorResponse("Please upload an image file", 400)
    ELSE IF up.file.size > MaxFileUpload
         THEN ErrorResponse("Please upload an image less than", 400)
    ELSE NoError

\* lines 171-198: the lookup, the checks, and the call of file.mv
PhotoFind(c) ==
    /\ Free(c)
    /\ \E id \in Ids, up \in Uploads :
          LET r == NewRequest("bootcampPhotoUpload", "find",
                              [id |-> id, files |-> up], AwaitingLookup)
              missing == [r EXCEPT !.loc = [bootcamp |-> Null]]
              found == [r EXCEPT !.loc = [bootcamp |-> FindById(db, id)]]
              check == UploadCheck(up)
          IN  \/ req' = [req EXCEPT ![c] =
                     IF ~HasId(db, id) THEN Delegate(missing, NotFound(id))
                     ELSE IF check.raised
                          THEN IF check.kind = "ErrorResponse"
                               THEN Delegate(found, check)
                               ELSE asyncHandler(found, check)
                     ELSE [found EXCEPT
                              !.pc = "mv",
                              !.loc = [bootcamp |-> FindById(db, id),
                                       name |-> PhotoName(id, up.file.name)]]]
              \/ req' = [req EXCEPT ![c] =
                            asyncHandler(r, Thrown("StorageError"))]
    /\ UNCHANGED <<db, nextId, files>>

\* lines 198-207: file.mv calls back, with an error or without
PhotoMv(c) ==
    /\ req[c].h = "bootcampPhotoUpload"
    /\ req[c].pc = "mv"
    /\ \/ /\ req' = [req EXCEPT ![c] =
                        Delegate(@, ErrorResponse(
                                        "Problem with file upload", 500))]
          /\ UNCHANGED files
       \/ /\ files' = files \cup {req[c].loc.name}
          /\ req' = [req EXCEPT ![c].pc = "update"]
    /\ UNCHANGED <<db, nextId>>

\* lines 209-214, inside the callback of file.mv: the handler's promise is
\* settled by now, so nothing catches a rejection of the update
PhotoUpdate(c) ==
    /\ req[c].h = "bootcampPhotoUpload"
    /\ req[c].pc = "update"
    /\ \/ /\ db' = UpdateById(db, req[c].in.id, "photo", req[c].loc.name)
          /\ req' = [req EXCEPT ![c] =
                        Respond(@, 200, [success |-> TRUE,
                                         data |-> req[c].loc.name])]
       \/ /\ req' = [req EXCEPT ![c] = UnhandledRejection(@)]
          /\ UNCHANGED db
    /\ UNCHANGED <<nextId, files>>

(***************************************************************************)
(* The requests the clients send.                                          *)
(***************************************************************************)
Strs(alphabet, n) == UNION {[1..k -> alphabet] : k \in 0..n}

OptEntry(k, v) == IF v.t = "undefined" THEN <<>> ELSE <<Entry(k, v)>>

\* page and limit strings: absent, an object, and every string of at most
\* MaxStrLen characters over a sign, a letter, a blank and the digits
PageChars == {"-", "x", " "} \cup {DigitChars[d + 1] : d \in 0..MaxDigit}

PageValues ==
    {Undefined, Obj(<<>>)} \cup {Str(s) : s \in Strs(PageChars, MaxStrLen)}

PageQueries ==
    {Obj(OptEntry(PageKey, p) \o OptEntry(LimitKey, l)) :
        p \in PageValues, l \in PageValues}

\* filter queries: reserved keys, field names, a field named like an
\* operator; literal values, among them operator words, and comparison
\* objects
FilterKeys == {SelectKey, SortKey, PageKey, LimitKey, NameField, CostField,
               OpIn}

Literals == {<<"1">>, OpIn, OpLte, <<"i", "n", "t">>,
             <<"s", "i", "g", "n", "-", "i", "n">>}

InputOps == OpWords \cup {<<"n", "e">>}

FilterValues ==
    {Str(s) : s \in Literals}
    \cup {Obj(<<Entry(op, Str(s))>>) : op \in InputOps, s \in {<<"1">>, OpGt}}

FilterEntries == {Entry(k, v) : k \in FilterKeys, v \in FilterValues}

FilterQueries ==
    {Obj(es) : es \in {s \in UNION {[1..n -> FilterEntries] :
                                       n \in 0..MaxFilterKeys} :
                          \A i, j \in 1..Len(s) : i # j => s[i].k # s[j].k}}

WideQueries == PageQueries \cup FilterQueries

\* list requests sent while other clients write
ListPages == {Undefined} \cup {Str(DigitStr(d)) : d \in 1..MaxDigit}

ListFilters ==
    {<<>>, <<Entry(CostField, Obj(<<Entry(OpGte, Str(<<"1">>))>>))>>}

ListQueries ==
    {Obj(f \o OptEntry(PageKey, p) \o OptEntry(LimitKey, l)) :
        f \in ListFilters, p \in ListPages, l \in ListPages}

\* the collections the server may start with
Collections(n) ==
    {[i \in 1..k |-> Doc(i, cost[i], <<>>)] :
        cost \in UNION {[1..k -> Costs] : k \in {n}}, k \in {n}}

FullCollection == [i \in 1..MaxId |-> Doc(i, i % (MaxCost + 1), <<>>)]

(***************************************************************************)
(* SpecQuery: one list request, with any query of WideQueries, to a server *)
(* whose collection nobody writes.                                         *)
(***************************************************************************)
InitQuery ==
    /\ db = FullCollection
    /\ nextId = MaxId + 1
    /\ files = {}
    /\ \E q \in WideQueries :
          req = [c \in Clients |->
                    IF c = "c1"
                    THEN NewRequest("getBootcamps", "start",
                                    [query |-> q], <<>>)
                    ELSE Idle]

NextQuery ==
    \/ GetBootcampsStart("c1")
    \/ GetBootcampsCount("c1")
    \/ GetBootcampsFetch("c1")

SpecQuery == InitQuery /\ [][NextQuery]_vars

(***************************************************************************)
(* SpecList: client c1 sends list requests while client c2 creates and     *)
(* deletes bootcamps.                                                      *)
(***************************************************************************)
InitList ==
    /\ \E n \in 0..MaxId : db \in Collections(n) /\ nextId = n + 1
    /\ files = {}
    /\ req = [c \in Clients |-> Idle]

NextList ==
    \/ ReceiveList("c1", ListQueries)
    \/ GetBootcampsStart("c1")
    \/ GetBootcampsCount("c1")
    \/ GetBootcampsFetch("c1")
    \/ CreateBootcamp("c2")
    \/ DeleteBootcampFind("c2")
    \/ DeleteBootcampRemove("c2")

SpecList == InitList /\ [][NextList]_vars

(***************************************************************************)
(* Spec: client c1 sends a request to any route while client c2 creates,   *)
(* updates or deletes a bootcamp; every storage, geocoding and file-move   *)
(* step may fail.                                                          *)
(***************************************************************************)
SmallQueries ==
    {Obj(<<>>),
     Obj(<<Entry(PageKey, Str(DigitStr(2))), Entry(LimitKey, Str(DigitStr(1)))>>)}

Init ==
    /\ \E n \in 0..MaxId : db \in Collections(n) /\ nextId = n + 1
    /\ files = {}
    /\ req = [c \in Clients |-> Idle]

Next ==
    \/ ReceiveList("c1", SmallQueries)
    \/ GetBootcampsStart("c1")
    \/ GetBootcampsCount("c1")
    \/ GetBootcampsFetch("c1")
    \/ GetBootcamp("c1")
    \/ GetBootcampsInRadius("c1")
    \/ PhotoFind("c1")
    \/ PhotoMv("c1")
    \/ PhotoUpdate("c1")
    \/ \E c \in Clients :
          \/ CreateBootcamp(c)
          \/ UpdateBootcamp(c)
          \/ DeleteBootcampFind(c)
          \/ DeleteBootcampRemove(c)

Spec == Init /\ [][Next]_vars

(***************************************************************************)
(* SpecCrud: client c1 sends a request to a route that names a bootcamp by *)
(* id while client c2 creates or deletes a bootcamp.                       *)
(***************************************************************************)
NextCrud ==
    \/ GetBootcamp("c1")
    \/ UpdateBootcamp("c1")
    \/ DeleteBootcampFind("c1")
    \/ DeleteBootcampRemove("c1")
    \/ PhotoFind("c1")
    \/ PhotoMv("c1")
    \/ PhotoUpdate("c1")
    \/ CreateBootcamp("c2")
    \/ DeleteBootcampFind("c2")
    \/ DeleteBootcampRemove("c2")

SpecCrud == Init /\ [][NextCrud]_vars

(***************************************************************************)
(* The properties.                                                         *)
(***************************************************************************)
\* a list request whose page, limit and filter are computed and whose
\* storage steps have not failed
Computed(c) ==
    /\ req[c].h = "getBootcamps"
    /\ req[c].pc \in {"count", "fetch"} \/ req[c].res.sent

\* a list request that has been answered
Answered(c) == req[c].h = "getBootcamps" /\ req[c].res.sent

Has(pagination, k) == k \in DOMAIN pagination

\* C1: in every answered list request, with page and limit as the handler
\* derived them and totalEntries the count it got, pagination.next is
\* present exactly when page * limit < totalEntries and is
\* {page + 1, limit}; pagination.prev is present exactly when page > 1 and
\* is {page - 1, limit}.
C1_PaginationFollowsPage ==
    \A c \in Clients :
        Answered(c) =>
            LET l == req[c].loc
                pg == req[c].res.body.pagination
            IN  /\ Has(pg, "next") <=> l.page * l.limit < l.totalEntries
                /\ Has(pg, "next") =>
                       pg["next"] = [page |-> l.page + 1, limit |-> l.limit]
                /\ Has(pg, "prev") <=> l.page > 1
                /\ Has(pg, "prev") =>
                       pg["prev"] = [page |-> l.page - 1, limit |-> l.limit]

\* C2: for every page and limit parameter the handler uses page >= 1 and
\* limit >= 1; a non-numeric or non-positive page falls back to 1 and such
\* a limit to 25, so the skip handed to storage is never negative and the
\* limit never zero or negative.
C2_PageAndLimitPositive ==
    \A c \in Clients :
        Computed(c) =>
            LET l == req[c].loc
                p == ParseInt(Get(req[c].in.query, PageKey))
                m == ParseInt(Get(req[c].in.query, LimitKey))
            IN  /\ l.page >= 1
                /\ l.limit >= 1
                /\ (p.nan \/ p.n <= 0) => l.page = 1
                /\ (m.nan \/ m.n <= 0) => l.limit = 25
                /\ l.startIndex >= 0

\* C3: with page >= 1, limit >= 1 and no insert or delete between the count
\* and the fetch, pagination.next is present exactly when a record that
\* matches the filter lies past the returned window, that is when more
\* than page * limit records match.
C3_NextIffMatchingPastWindow ==
    \A c \in Clients :
        (/\ Answered(c)
         /\ req[c].loc.page >= 1
         /\ req[c].loc.limit >= 1
         /\ req[c].loc.idsAtCount = req[c].loc.idsAtFetch)
        => (Has(req[c].res.body.pagination, "next")
            <=> req[c].loc.matchAtFetch > req[c].loc.page * req[c].loc.limit)

\* the filter as C4 states it: operator names of a comparison object take
\* the '$', every key and every literal value stays as it is
ExpectedCondition(v) ==
    IF v.t = "str" THEN v
    ELSE Obj([i \in 1..Len(v.e) |->
                 Entry(IF v.e[i].k \in OpWords
                       THEN <<"$">> \o v.e[i].k ELSE v.e[i].k,
                       v.e[i].v)])

ExpectedFilter(query) ==
    LET es == SelectSeq(query.e, LAMBDA e : e.k \notin removeFields)
    IN  Obj([i \in 1..Len(es) |->
                Entry(es[i].k, ExpectedCondition(es[i].v))])

\* C4: the filter handed to storage rewrites exactly the operator names
\* gt, gte, lt, lte, in of a comparison object to their '$' form; every
\* other key and every literal value passes through unchanged, also a
\* field name or a literal value that is itself one of these words.
C4_OnlyOperatorsRewritten ==
    \A c \in Clients :
        Computed(c) => req[c].loc.filter = ExpectedFilter(req[c].in.query)

\* C5: the filter handed to storage has none of the keys select, sort,
\* page, limit and keeps every other key of the request, and the request's
\* own query mapping still has its reserved keys.
C5_ReservedStrippedOthersKept ==
    \A c \in Clients :
        Computed(c) =>
            /\ Keys(req[c].loc.filter) \cap removeFields = {}
            /\ Keys(req[c].in.query) \ removeFields
                   \subseteq Keys(req[c].loc.filter)
            /\ PageOf(req[c].in.query) = req[c].loc.page
            /\ LimitOf(req[c].in.query) = req[c].loc.limit

\* C6: every request that has ended has a response sent or an error handed
\* to the error responder, whichever step failed.
C6_EveryFailureDelegated ==
    \A c \in Clients :
        (req[c].h # "idle" /\ req[c].pc = "done")
        => (req[c].res.sent \/ req[c].err.raised)

\* C7: a radius request with a non-numeric distance issues no geospatial
\* query and, unless the geocoder failed or found nothing, ends in a
\* delegated 400 validation error; with a numeric distance the query it issues has radius
\* distance / 6378 and is centered on the first geocoding result
\* (longitude, latitude).
C7_NonNumericDistanceRejected ==
    \A c \in Clients :
        (req[c].h = "getBootcampsInRadius" /\ req[c].pc = "done") =>
            LET d == ToNumber(req[c].in.distance)
                issued == req[c].loc.issued
            IN  /\ d.nan =>
                       /\ issued = <<>>
                       /\ ~req[c].res.sent
                       /\ (req[c].err.raised
                           /\ req[c].err.kind
                                  \notin {"GeocoderError", "TypeError"})
                          => req[c].err.statusCode = 400
                /\ (~d.nan /\ issued # <<>>) =>
                       /\ issued[1].radius =
                              [nan |-> FALSE, num |-> d.n, den |-> 6378]
                       /\ issued[1].center =
                              <<req[c].loc.loc[1].longitude,
                                req[c].loc.loc[1].latitude>>

ByIdHandlers ==
    {"getBootcamp", "updateBootcamp", "deleteBootcamp", "bootcampPhotoUpload"}

\* the request of client c looked the bootcamp up and storage answered null
LookupNull(r) == r.h \in ByIdHandlers /\ r.loc.bootcamp = Null

C8_NotFoundOutcome ==
    \A c \in Clients :
        LookupNull(req[c]) =>
            /\ req[c].pc = "done"
            /\ ~req[c].res.sent
            /\ req[c].err.raised
            /\ req[c].err.kind = "ErrorResponse"
            /\ req[c].err.statusCode = 404

C8_NotFoundStep ==
    \A c \in Clients :
        (req'[c] # req[c] /\ LookupNull(req'[c]))
        => (db' = db /\ files' = files /\ nextId' = nextId)

C8_DeleteStep ==
    \A c \in Clients :
        (req[c].h = "deleteBootcamp" /\ req[c].pc = "remove"
         /\ req'[c].pc = "done")
        => LET id == req[c].in.id
           IN  \/ /\ req'[c].res = Response(200, [success |-> TRUE,
                                                  data |-> <<>>])
                  /\ ~req'[c].err.raised
                  /\ db' = SelectSeq(db, LAMBDA doc : doc.id # id)
                  /\ files' = files
               \/ /\ req'[c].err.raised
                  /\ req'[c].err.kind = "StorageError"
                  /\ ~req'[c].res.sent
                  /\ db' = db

C8_DeleteFound ==
    \A c \in Clients :
        (req[c].h = "deleteBootcamp" /\ req[c].loc.bootcamp.id \in Ids)
        => /\ req[c].in.id = req[c].loc.bootcamp.id
           /\ req[c].pc = "remove" \/ req[c].res.sent \/ req[c].err.raised
           /\ req[c].err.raised => req[c].err.kind = "StorageError"

\* C8: when the lookup of getBootcamp, updateBootcamp, deleteBootcamp or
\* bootcampPhotoUpload finds no bootcamp with the requested id, the handler
\* hands a 404 ErrorResponse to the error responder, sends no response, and
\* its step leaves the collection, the id counter and the upload directory
\* unchanged; when deleteBootcamp finds the bootcamp, its remove step
\* removes exactly that record and responds 200 with empty data (or, when
\* storage rejects the remove, delegates that error and removes nothing).
C8_NotFound ==
    /\ []C8_NotFoundOutcome
    /\ []C8_DeleteFound
    /\ [][C8_NotFoundStep]_vars
    /\ [][C8_DeleteStep]_vars

\* C8's case: the upload handler found no bootcamp because the other
\* client's delete had removed it, and that delete was answered 200
C8_Witness ==
    /\ req["c1"].h = "bootcampPhotoUpload"
    /\ LookupNull(req["c1"])
    /\ req["c1"].in.files.present
    /\ req["c2"].h = "deleteBootcamp"
    /\ req["c2"].res.sent
    /\ req["c2"].in.id = req["c1"].in.id

\* the error the checks of C9 end in, in their order
ExpectedUploadStatus(r) ==
    IF r.loc.bootcamp = Null THEN 404
    ELSE IF ~r.in.files.present \/ ~r.in.files.hasFile THEN 400
    ELSE IF ~StartsWith(r.in.files.file.mimetype, ImagePrefix) THEN 400
    ELSE IF r.in.files.file.size > MaxFileUpload THEN 400
    ELSE 500

\* C9: an upload request that has ended has exactly one of a response and
\* a delegated error; an ErrorResponse it delegates is the one of the first
\* failing check (404, 400, 400, 400, then 500 for the file move), and a
\* response is a 200 carrying photo_<id><extension>, sent only when the
\* file is in the upload directory.
C9_UploadOutcome ==
    \A c \in Clients :
        (/\ req[c].h = "bootcampPhotoUpload"
         /\ req[c].pc = "done"
         /\ req[c].loc.bootcamp # Pending)
        => /\ req[c].res.sent # req[c].err.raised
           /\ (req[c].err.raised /\ req[c].err.kind = "ErrorResponse") =>
                  req[c].err.statusCode = ExpectedUploadStatus(req[c])
           /\ req[c].res.sent =>
                  /\ req[c].res.status = 200
                  /\ req[c].res.body.data =
                         PhotoPrefix \o DigitStr(req[c].in.id)
                         \o PathExt(req[c].in.files.file.name)
                  /\ req[c].res.body.data \in files

\* C10: when no record is inserted or deleted between the count and the
\* fetch of a list request, pagination.next is present exactly when the
\* collection the page was read from has more than page * limit records.
C10_AgreesWithoutWrites ==
    \A c \in Clients :
        (Answered(c) /\ req[c].loc.idsAtCount = req[c].loc.idsAtFetch)
        => (Has(req[c].res.body.pagination, "next")
            <=> req[c].loc.endIndex < Cardinality(req[c].loc.idsAtFetch))

\* C10's case: a record was deleted between the count and the fetch, and
\* the response offers a next page although no record lies past the window
C10_StaleNext ==
    \E c \in Clients :
        /\ Answered(c)
        /\ req[c].loc.idsAtCount # req[c].loc.idsAtFetch
        /\ Has(req[c].res.body.pagination, "next")
        /\ req[c].loc.endIndex >= Cardinality(req[c].loc.idsAtFetch)

\* the other disagreement: a record was inserted between the count and the
\* fetch, and the response offers no next page although one exists
C10_MissingNext ==
    \E c \in Clients :
        /\ Answered(c)
        /\ req[c].loc.idsAtCount # req[c].loc.idsAtFetch
        /\ ~Has(req[c].res.body.pagination, "next")
        /\ req[c].loc.endIndex < Cardinality(req[c].loc.idsAtFetch)

=============================================================================
